---- MODULE Spec2Model ----
(***************************************************************************)
(* Two-tier planning pipeline: SupervisorRouter.plan (manager/supervisor), *)
(* BaseLLMMaster.plan_tools with _extract_tool_inputs (manager/base_master)*)
(* and the dispatch loop of start.py.  The LLM (the "oracle") is the only  *)
(* source of nondeterminism: every oracle call draws its response from a   *)
(* bounded set of response shapes.                                         *)
(***************************************************************************)
EXTENDS Integers, Sequences, FiniteSets, TLC

VARIABLES
    pc,            \* position of the start.py script: "lib" | "plan" | "loop" | "planning" | "done" | "crashed"
    query,         \* query handed to SupervisorRouter.plan
    domain_hint,   \* domain_hint handed to SupervisorRouter.plan
    raw_plan,      \* what self._chain.invoke returned to SupervisorRouter.plan
    plan,          \* SupervisorPlan being returned by SupervisorRouter.plan
    r_pc,          \* status of the router call: "idle" | "returned" | "raised"
    idx,           \* index (1-based) of the task the dispatch loop is at
    log,           \* records written by the dispatch loop, in order
    m_name,        \* master_name the current BaseLLMMaster was constructed with
    m_pc,          \* status of plan_tools: "idle" | "extract" | "returned" | "raised"
    m_query,       \* query argument of plan_tools
    m_intent,      \* intent argument of plan_tools (caller override)
    raw_result,    \* what self._chain.invoke returned to plan_tools
    decision,      \* MasterDecision under construction / returned
    m_step,        \* index (1-based) of the ToolPlan _extract_tool_inputs is at
    calls,         \* oracle invocations made since plan_tools was entered, in order
    replies,       \* per step, the extraction oracle's reply ("skipped" when no call)
    stamped,       \* master names on the decisions this planner returned in earlier calls
    state,         \* the state mapping the caller passes to plan and plan_tools
    mem_max,       \* ShortTermMemoryManager.max_conversations
    mem_file,      \* content of the file at ShortTermMemoryManager.storage_path
    mem_log,       \* every entry ever put in the store, in order
    mem_calls      \* number of record_interaction calls made

vars == <<pc, query, domain_hint, raw_plan, plan, r_pc, idx, log, m_name, m_pc,
          m_query, m_intent, raw_result, decision, m_step, calls, replies, stamped,
          state, mem_max, mem_file, mem_log, mem_calls>>

routerVars == <<query, domain_hint, raw_plan, plan, r_pc>>
scriptVars == <<pc, idx, log>>
masterVars == <<m_name, m_pc, m_query, m_intent, raw_result, decision, m_step, calls, replies,
                stamped>>
memoryVars == <<mem_max, mem_file, mem_log, mem_calls>>

-----------------------------------------------------------------------------
(* Bounds of the model *)

\* tasks in a plan the dispatch loop of start.py runs over
MaxTasks == 3
\* tasks in an oracle response to a SupervisorRouter.plan library call
MaxPlanTasks == 2
\* task priorities are 1..MaxPriority in the plans start.py dispatches
MaxPriority == 3
\* tool steps in an oracle response to plan_tools
MaxSteps == 2
\* largest max_conversations a ShortTermMemoryManager is constructed with
MaxConversations == 2
\* conversations in the storage file when the manager is constructed
MaxStored == 2
\* record_interaction calls on one manager
MaxRecords == 4

-----------------------------------------------------------------------------
(* Python values *)

\* Python's None (also JSON null, the "absent marker")
None == "<None>"
\* an empty dict
EmptyDict == [f \in {} |-> None]
\* an empty list
EmptyList == << >>

\* truthiness of an Optional[str]: None and "" are falsy
Truthy(s) == s \notin {None, ""}
\* Python `a or b` on strings
Or(a, b) == IF Truthy(a) THEN a ELSE b
\* a JSON object is a function on its keys; a key the oracle left out is not
\* in its DOMAIN.  pydantic field default: a missing key takes the default
Get(obj, key, d) == IF key \in DOMAIN obj THEN obj[key] ELSE d
\* the objects of S, each extended by key |-> v for v in vals, and, when
\* mayMiss, also left without the key
Opt(S, key, vals, mayMiss) ==
    {r @@ (key :> v) : r \in S, v \in vals} \cup (IF mayMiss THEN S ELSE {})

RECURSIVE SeqsUpTo(_, _)
\* all sequences over S of length 0..n
SeqsUpTo(S, n) == IF n = 0 THEN {<< >>}
                  ELSE LET shorter == SeqsUpTo(S, n - 1)
                       IN  shorter \cup {Append(s, e) : s \in {t \in shorter : Len(t) = n - 1}, e \in S}

-----------------------------------------------------------------------------
(* manager/catalog.py *)

TOOL_SPECS ==
    [annual_leave_inquiry |-> [name |-> "annual_leave_inquiry",
        inputs |-> <<"input.employee_id", "schedule_domain.leave.leave_type">>],
     annual_leave_application |-> [name |-> "annual_leave_application",
        inputs |-> <<"input.employee_id", "schedule_domain.leave.leave_type",
                     "schedule_domain.leave.start_date", "schedule_domain.leave.end_date">>],
     meeting_room_inquiry |-> [name |-> "meeting_room_inquiry",
        inputs |-> <<"schedule_domain.meeting_room.start_time", "schedule_domain.meeting_room.end_time",
                     "schedule_domain.meeting_room.participants", "schedule_domain.meeting_room.require_video">>],
     meeting_room_recommendation |-> [name |-> "meeting_room_recommendation",
        inputs |-> <<"schedule_domain.meeting_room.available_rooms">>],
     meeting_room_reservation_cancel |-> [name |-> "meeting_room_reservation_cancel",
        inputs |-> <<"schedule_domain.meeting_room.selected_room_id", "schedule_domain.meeting_room.start_time",
                     "schedule_domain.meeting_room.end_time">>],
     schedule_register_cancel |-> [name |-> "schedule_register_cancel",
        inputs |-> <<"schedule_domain.schedule.title", "schedule_domain.schedule.start_time",
                     "schedule_domain.schedule.end_time", "schedule_domain.meeting_room.reservation_id">>],
     schedule_inquiry |-> [name |-> "schedule_inquiry",
        inputs |-> <<"input.employee_id", "schedule_domain.schedule.start_time",
                     "schedule_domain.schedule.end_time">>],
     schedule_notification |-> [name |-> "schedule_notification",
        inputs |-> <<"schedule_domain.schedule.schedule_id", "schedule_domain.leave.leave_request_id">>],
     document_auto_creation |-> [name |-> "document_auto_creation",
        inputs |-> <<"document_domain.template_name", "document_domain.document_content">>],
     auto_approval_request |-> [name |-> "auto_approval_request",
        inputs |-> <<"document_domain.document_id", "document_domain.approval_line">>],
     pdf_conversion |-> [name |-> "pdf_conversion",
        inputs |-> <<"document_domain.document_content">>],
     knowledge_upload_rag |-> [name |-> "knowledge_upload_rag",
        inputs |-> <<"document_domain.document_path", "document_domain.vector_db_collection">>],
     manual_search_rag |-> [name |-> "manual_search_rag",
        inputs |-> <<"qa_domain.search_query", "qa_domain.search_type">>],
     welfare_inquiry |-> [name |-> "welfare_inquiry",
        inputs |-> <<"qa_domain.benefit_category">>],
     menu_inquiry |-> [name |-> "menu_inquiry",
        inputs |-> <<"qa_domain.menu_date", "qa_domain.menu_corner">>],
     menu_recommendation |-> [name |-> "menu_recommendation",
        inputs |-> <<"qa_domain.menu_preferences">>],
     email_search |-> [name |-> "email_search",
        inputs |-> <<"email_domain.search_query", "email_domain.email_importance">>],
     reply_draft_generation |-> [name |-> "reply_draft_generation",
        inputs |-> <<"input.query">>],
     auto_sending |-> [name |-> "auto_sending",
        inputs |-> <<"email_domain.email_draft", "email_domain.email_to", "email_domain.email_cc">>],
     email_receipt_detection |-> [name |-> "email_receipt_detection",
        inputs |-> <<"email_domain.email_id">>],
     patent_search |-> [name |-> "patent_search",
        inputs |-> <<"tech_domain.search_keywords">>],
     patent_vectorization |-> [name |-> "patent_vectorization",
        inputs |-> <<"tech_domain.selected_patent_id", "tech_domain.vector_db_collection">>],
     paper_search |-> [name |-> "paper_search",
        inputs |-> <<"tech_domain.search_keywords">>],
     paper_vectorization |-> [name |-> "paper_vectorization",
        inputs |-> <<"tech_domain.selected_article_id">>]]

MASTER_SPECS ==
    [schedule_master |-> [name |-> "schedule_master", domain |-> "schedule",
        intents |-> <<"leave", "meeting_room", "meeting", "inquiry">>],
     document_master |-> [name |-> "document_master", domain |-> "document",
        intents |-> <<"generate", "approval", "upload">>],
     qa_master |-> [name |-> "qa_master", domain |-> "qa",
        intents |-> <<"manual", "benefit", "menu", "recommend">>],
     email_master |-> [name |-> "email_master", domain |-> "email",
        intents |-> <<"search", "compose", "notify">>],
     technology_master |-> [name |-> "technology_master", domain |-> "tech",
        intents |-> <<"patent", "article", "vectorize">>]]

-----------------------------------------------------------------------------
(* manager/supervisor.py: SupervisorRouter.plan *)

\* SupervisorPlan(**raw_plan) raises unless the response is a JSON object whose
\* tasks carry the required fields (master, intent, reason; here: intent)
PlanShapeOk(raw) ==
    /\ raw.kind = "dict"
    /\ \A i \in 1..Len(Get(raw, "master_tasks", EmptyList)) :
          {"master", "intent"} \subseteq DOMAIN raw.master_tasks[i]

\* PlannedMasterTask(**t): sub_query defaults to "", priority to 0
PlannedMasterTask(t) ==
    [master |-> t.master, intent |-> t.intent,
     sub_query |-> Get(t, "sub_query", ""), priority |-> Get(t, "priority", 0)]

\* SupervisorPlan(**raw_plan): domain defaults to "general", intent to "",
\* master_tasks to []
SupervisorPlan(raw) ==
    LET ts == Get(raw, "master_tasks", EmptyList)
    IN  [domain |-> Get(raw, "domain", "general"),
         intent |-> Get(raw, "intent", ""),
         master_tasks |-> [i \in 1..Len(ts) |-> PlannedMasterTask(ts[i])]]

RECURSIVE _infer_domain_from_tasks(_)
_infer_domain_from_tasks(tasks) ==
    IF tasks = << >> THEN "general"
    ELSE IF Head(tasks).master \in DOMAIN MASTER_SPECS
         THEN MASTER_SPECS[Head(tasks).master].domain
         ELSE _infer_domain_from_tasks(Tail(tasks))

\* task.sub_query = task.sub_query or full_query
EnsuredSubQuery(sub_query, full_query) == Or(sub_query, full_query)

_ensure_sub_queries(full_query, p) ==
    [p EXCEPT !.master_tasks =
        [i \in 1..Len(p.master_tasks) |->
            [p.master_tasks[i] EXCEPT !.sub_query = EnsuredSubQuery(@, full_query)]]]

\* the domain plan() settles on
PlanDomain(p, hint) ==
    IF Truthy(hint) THEN hint
    ELSE IF ~Truthy(p.domain) THEN _infer_domain_from_tasks(p.master_tasks)
    ELSE p.domain

\* the top-level intent plan() settles on
PlanIntent(p) ==
    IF ~Truthy(p.intent) /\ p.master_tasks # << >> THEN p.master_tasks[1].intent
    ELSE p.intent

\* the value plan() returns for a well-shaped oracle response
PlanResult(q, hint, raw) ==
    LET p0 == SupervisorPlan(raw)
        p1 == [p0 EXCEPT !.domain = PlanDomain(p0, hint)]
        p2 == [p1 EXCEPT !.intent = PlanIntent(p1)]
    IN  _ensure_sub_queries(q, p2)

NoPlan == [domain |-> None, intent |-> None, master_tasks |-> EmptyList]
NoRaw == [kind |-> "none"]
NoDecision == [master |-> None, intent |-> None, plan |-> EmptyList,
               hitl_required |-> FALSE, hitl_reason |-> None]

\* state_summary = json.dumps(state or {}, ...) builds a string from the mapping;
\* this is the mapping after it
StateAfterDumps_Write(st) == [type |-> "dict", val |-> ("state_summary" :> "{}") @@ st.val]
StateAfterDumps(st) == st

\* one call of SupervisorRouter.plan(query, state, domain_hint)
RouterPlan(q, hint, raw) ==
    /\ r_pc = "idle"
    /\ state' = StateAfterDumps(state)
    /\ query' = q
    /\ domain_hint' = hint
    /\ raw_plan' = raw
    /\ IF PlanShapeOk(raw)
       THEN /\ plan' = PlanResult(q, hint, raw)
            /\ r_pc' = "returned"
       ELSE /\ plan' = NoPlan
            /\ r_pc' = "raised"

-----------------------------------------------------------------------------
(* Oracle responses to the router *)

\* task objects: master is always present, intent (a required field) and the
\* fields named in `optional` may be left out
RawTasks(masters, intents, subqs, prios, optional) ==
    Opt(Opt(Opt([master : masters],
                "intent", intents, "intent" \in optional),
            "sub_query", subqs, "sub_query" \in optional),
        "priority", prios, "priority" \in optional)

\* the chain raises (oracle failure, output not JSON) or yields a JSON object
RawPlans(domains, intents, taskSet, n, optional) ==
    {[kind |-> "raise"], [kind |-> "unparsable"]}
    \cup Opt(Opt(Opt({[kind |-> "dict"]},
                     "domain", domains, "domain" \in optional),
                 "intent", intents, "intent" \in optional),
             "master_tasks", SeqsUpTo(taskSet, n), "master_tasks" \in optional)

RouterQueries == {"", "book a room for 4"}
RouterHints == {None, "", "hr"}
RouterRawPlans ==
    RawPlans({"", "custom"}, {"top"},
             RawTasks({"email_master", "schedule_master", "hr_master"},
                      {"notify"}, {"", "send the mail"}, {},
                      {"intent", "sub_query", "priority"}),
             MaxPlanTasks, {"domain", "intent", "master_tasks"})

-----------------------------------------------------------------------------
(* manager/base_master.py: BaseLLMMaster.plan_tools *)

\* a Python dict value / a Python list value (the elements are not modelled)
PyDict(f) == [type |-> "dict", val |-> f]
PyList == [type |-> "list", val |-> EmptyDict]
PyNone == [type |-> "none", val |-> EmptyDict]

\* MasterDecision(**raw_result) raises unless the response is a JSON object
\* with the required fields (master; per step tool, action, reason; here: tool)
DecisionShapeOk(raw) ==
    /\ raw.kind = "dict"
    /\ "master" \in DOMAIN raw
    /\ \A i \in 1..Len(Get(raw, "plan", EmptyList)) : "tool" \in DOMAIN raw.plan[i]

\* ToolPlan(**st): inputs_to_collect defaults to [], extracted_inputs to {}
ToolPlan(st) ==
    [tool |-> st.tool,
     inputs_to_collect |-> Get(st, "inputs_to_collect", EmptyList),
     extracted_inputs |-> PyDict(EmptyDict)]

\* MasterDecision(**raw_result): intent defaults to "", plan to [],
\* hitl_required to False, hitl_reason to None
MasterDecision(raw) ==
    LET steps == Get(raw, "plan", EmptyList)
    IN  [master |-> raw.master,
         intent |-> Get(raw, "intent", ""),
         plan |-> [i \in 1..Len(steps) |-> ToolPlan(steps[i])],
         hitl_required |-> Get(raw, "hitl_required", FALSE),
         hitl_reason |-> Get(raw, "hitl_reason", None)]

\* (mutant) the oracle's intent is taken before the caller's override
ResolveIntent_OracleFirst(intent, result_intent, spec) ==
    IF Truthy(result_intent) THEN result_intent
    ELSE IF Truthy(intent) THEN intent
    ELSE spec.intents[1]

\* if intent: result.intent = intent / elif not result.intent: intents[0]
ResolveIntent(intent, result_intent, spec) ==
    IF Truthy(intent) THEN intent
    ELSE IF ~Truthy(result_intent) THEN spec.intents[1]
    ELSE result_intent

\* (mutant) the master name the oracle claimed is kept
StampMaster_Unstamped(claimed, spec) == claimed

\* result.master = self.spec.name
StampMaster(claimed, spec) == spec.name

\* the MasterDecision plan_tools holds when it enters _extract_tool_inputs
PlanToolsResult(name, intent, raw) ==
    LET spec == MASTER_SPECS[name]
        r0 == MasterDecision(raw)
    IN  [r0 EXCEPT !.intent = ResolveIntent(intent, r0.intent, spec),
                   !.master = StampMaster(r0.master, spec)]

PlanCall == [kind |-> "plan", step |-> 0, tool |-> None, fields |-> EmptyList]
ExtractCall(i, tool, fields) == [kind |-> "extract", step |-> i, tool |-> tool, fields |-> fields]

\* plan_tools up to the call of _extract_tool_inputs
PlanToolsCall(name, q, intent, raw) ==
    /\ state' = StateAfterDumps(state)
    /\ m_query' = q
    /\ m_intent' = intent
    /\ raw_result' = raw
    /\ calls' = <<PlanCall>>
    /\ replies' = << >>
    /\ IF DecisionShapeOk(raw)
       THEN /\ decision' = PlanToolsResult(name, intent, raw)
            /\ m_pc' = "extract"
            /\ m_step' = 1
       ELSE /\ decision' = NoDecision
            /\ m_pc' = "raised"
            /\ m_step' = 0

-----------------------------------------------------------------------------
(* manager/base_master.py: BaseLLMMaster._extract_tool_inputs *)

\* spec.inputs (when the tool is cataloged) followed by plan.inputs_to_collect
RequiredFields(step) ==
    (IF step.tool \in DOMAIN TOOL_SPECS THEN TOOL_SPECS[step.tool].inputs ELSE EmptyList)
    \o step.inputs_to_collect

Elems(seq) == {seq[i] : i \in 1..Len(seq)}

RECURSIVE Dedup(_, _)
\* for field in required_fields: if field and field not in unique_fields: append
Dedup(required, unique) ==
    IF required = << >> THEN unique
    ELSE LET field == Head(required)
         IN  Dedup(Tail(required),
                   IF Truthy(field) /\ field \notin Elems(unique)
                   THEN Append(unique, field) ELSE unique)

\* (mutant) the required fields are sent as they come
UniqueFields_Unfiltered(step) == RequiredFields(step)

\* unique_fields as the loop over required_fields leaves it
UniqueFields(step) == Dedup(RequiredFields(step), EmptyList)

\* (mutant) the oracle is asked whatever the field list
NeedsOracle_Always(unique_fields) == TRUE

\* `if not unique_fields: ... continue` -- the oracle is asked only for a
\* non-empty field list
NeedsOracle(unique_fields) == unique_fields # EmptyList

\* {field: None for field in unique_fields}
AllNone(unique_fields) == PyDict([f \in Elems(unique_fields) |-> None])

\* json.loads fails on text that is not JSON
JsonRaises(content) == content.form = "garbage"
\* json.loads of well-formed JSON: an object gives a dict, an array a list
JsonLoads(content) == IF content.form = "object" THEN PyDict(content.obj) ELSE PyList

\* the try/except of _extract_tool_inputs: what extracted_inputs is set to
ExtractedInputs(reply, unique_fields) ==
    IF reply.kind = "raise" THEN AllNone(unique_fields)
    ELSE IF reply.content.form = "empty" THEN PyDict(EmptyDict)
    ELSE IF JsonRaises(reply.content) THEN AllNone(unique_fields)
    ELSE JsonLoads(reply.content)

Skipped == [kind |-> "skipped"]

\* what the extraction oracle may answer when asked for `fields`: the call
\* raises, or returns content that is empty, not JSON, a JSON array, or a JSON
\* object on all / all but the first / none of the fields (first field
\* resolved, the others null)
ExtractionReplies(fields) ==
    LET obj(keys) == [f \in keys |-> IF f = fields[1] THEN "value" ELSE None]
    IN  {[kind |-> "raise"]}
        \cup {[kind |-> "content", content |-> [form |-> fm]] : fm \in {"empty", "garbage", "array"}}
        \cup {[kind |-> "content", content |-> [form |-> "object", obj |-> obj(keys)]] :
                 keys \in {Elems(fields), {fields[i] : i \in 2..Len(fields)}}}

\* (mutant) the value is written to every step of the plan
SetExtractedInputs_EveryStep(d, i, value) ==
    [d EXCEPT !.plan = [k \in DOMAIN d.plan |-> [d.plan[k] EXCEPT !.extracted_inputs = value]]]

\* plan.extracted_inputs = ...: the assignment is to the step the loop is at
SetExtractedInputs(d, i, value) == [d EXCEPT !.plan[i].extracted_inputs = value]

\* (mutant) a step whose extraction call raised is tried again
NextStep_Retry(i, reply) == IF reply.kind = "raise" THEN i ELSE i + 1

\* `for plan in decision.plan`: whatever the step's outcome (`continue`, the
\* try body or the except handler), the loop goes on with the next step
NextStep(i, reply) == i + 1

\* one iteration of `for plan in decision.plan`
ExtractStep ==
    /\ m_pc = "extract"
    /\ m_step <= Len(decision.plan)
    /\ LET step == decision.plan[m_step]
           unique_fields == UniqueFields(step)
       IN  IF ~NeedsOracle(unique_fields)
           THEN /\ decision' = SetExtractedInputs(decision, m_step, PyDict(EmptyDict))
                /\ calls' = calls
                /\ replies' = Append(replies, Skipped)
                /\ m_step' = NextStep(m_step, Skipped)
           ELSE \E reply \in ExtractionReplies(unique_fields) :
                /\ decision' = SetExtractedInputs(decision, m_step,
                                                  ExtractedInputs(reply, unique_fields))
                /\ calls' = Append(calls, ExtractCall(m_step, step.tool, unique_fields))
                /\ replies' = Append(replies, reply)
                /\ m_step' = NextStep(m_step, reply)
    /\ UNCHANGED <<m_name, m_pc, m_query, m_intent, raw_result, stamped, state>>

\* the loop is over: _extract_tool_inputs returns, plan_tools returns result
PlanToolsReturn ==
    /\ m_pc = "extract"
    /\ m_step > Len(decision.plan)
    /\ m_pc' = "returned"
    /\ UNCHANGED <<m_name, m_query, m_intent, raw_result, decision, m_step, calls, replies,
                   stamped, state>>

-----------------------------------------------------------------------------
(* Oracle responses to a master *)

RawSteps(tools, collects, optional) ==
    Opt(Opt({[action |-> "act"]},
            "tool", tools, "tool" \in optional),
        "inputs_to_collect", collects, "inputs_to_collect" \in optional)

\* the objects of S as they are, with hitl_required true and no reason, and
\* with hitl_required true and a reason
Hitl(S) ==
    S \cup {r @@ ("hitl_required" :> TRUE) : r \in S}
      \cup {r @@ ("hitl_required" :> TRUE) @@ ("hitl_reason" :> "recipient unknown") : r \in S}

RawDecisions(masters, intents, stepSet, n, optional) ==
    LET objects == Opt(Opt(Opt({[kind |-> "dict"]},
                               "master", masters, "master" \in optional),
                           "intent", intents, "intent" \in optional),
                       "plan", SeqsUpTo(stepSet, n), "plan" \in optional)
    IN  {[kind |-> "raise"], [kind |-> "unparsable"]}
        \cup (IF "hitl_required" \in optional THEN Hitl(objects) ELSE objects)

IdleMaster ==
    /\ m_name = None
    /\ m_pc = "idle"
    /\ m_query = None
    /\ m_intent = None
    /\ raw_result = NoRaw
    /\ decision = NoDecision
    /\ m_step = 0
    /\ calls = << >>
    /\ replies = << >>
    /\ stamped = {}

IdleRouter ==
    /\ query = None
    /\ domain_hint = None
    /\ raw_plan = NoRaw
    /\ plan = NoPlan
    /\ r_pc = "idle"

\* no ShortTermMemoryManager is constructed
NoFile == [kind |-> "absent", data |-> EmptyDict]
NoMemory ==
    /\ mem_max = 0
    /\ mem_file = NoFile
    /\ mem_log = << >>
    /\ mem_calls = 0

\* SupervisorRouter used as a library: one plan() call on arbitrary arguments
InitRouter ==
    /\ pc = "lib"
    /\ idx = 0
    /\ log = << >>
    /\ IdleRouter
    /\ IdleMaster
    /\ state = PyNone
    /\ NoMemory

RouterCall ==
    /\ pc = "lib"
    /\ r_pc = "idle"
    /\ \E q \in RouterQueries, hint \in RouterHints, raw \in RouterRawPlans :
          RouterPlan(q, hint, raw)
    /\ UNCHANGED <<scriptVars, masterVars, memoryVars>>

NextRouter == RouterCall

SpecRouter == InitRouter /\ [][NextRouter]_vars

-----------------------------------------------------------------------------
(* BaseLLMMaster used as a library: plan_tools calls on one planner *)

MasterNames == {"email_master", "qa_master"}
MasterQueries == {"reply to the last mail"}
MasterIntents == {None, "", "compose"}
MasterRawDecisions ==
    RawDecisions({"email_master"}, {"", "notify"},
                 RawSteps({"reply_draft_generation", "fax_sending"},
                          {<<"input.query", "", "email_domain.email_to">>},
                          {"tool", "inputs_to_collect"}),
                 MaxSteps, {"master", "intent", "plan", "hitl_required"})

\* BaseLLMMaster(master_name, llm) for a cataloged master_name
InitMaster ==
    /\ pc = "lib"
    /\ idx = 0
    /\ log = << >>
    /\ IdleRouter
    /\ m_name \in MasterNames
    /\ m_pc = "idle"
    /\ m_query = None
    /\ m_intent = None
    /\ raw_result = NoRaw
    /\ decision = NoDecision
    /\ m_step = 0
    /\ calls = << >>
    /\ replies = << >>
    /\ stamped = {}
    /\ state = PyNone
    /\ NoMemory

MasterCall ==
    /\ pc = "lib"
    /\ m_pc = "idle"
    /\ \E q \in MasterQueries, intent \in MasterIntents, raw \in MasterRawDecisions :
          PlanToolsCall(m_name, q, intent, raw)
    /\ UNCHANGED <<m_name, stamped, routerVars, scriptVars, memoryVars>>

MasterExtract ==
    /\ pc = "lib"
    /\ ExtractStep
    /\ UNCHANGED <<routerVars, scriptVars, memoryVars>>

MasterReturn ==
    /\ pc = "lib"
    /\ PlanToolsReturn
    /\ UNCHANGED <<routerVars, scriptVars, memoryVars>>

\* the caller is done with the result (or the exception); the planner keeps
\* nothing of the call and can be asked again
MasterRelease ==
    /\ pc = "lib"
    /\ m_pc \in {"returned", "raised"}
    /\ m_pc' = "idle"
    /\ m_query' = None
    /\ m_intent' = None
    /\ raw_result' = NoRaw
    /\ decision' = NoDecision
    /\ m_step' = 0
    /\ calls' = << >>
    /\ replies' = << >>
    /\ stamped' = IF m_pc = "returned" THEN stamped \cup {decision.master} ELSE stamped
    /\ UNCHANGED <<m_name, routerVars, scriptVars, state, memoryVars>>

NextMaster == MasterCall \/ MasterExtract \/ MasterReturn \/ MasterRelease

SpecMaster == InitMaster /\ [][NextMaster]_vars

-----------------------------------------------------------------------------
(* start.py: supervisor.plan, then the dispatch loop over plan.master_tasks *)

\* the request start.py sends (the source has it in Korean)
QUERY == "ask Kim Cheolsu about a 3pm meeting tomorrow and book a room for 4"

\* master name -> master_name the registered class binds itself to
MASTER_CLASS_MAP ==
    [schedule_master |-> "schedule_master",
     document_master |-> "document_master",
     qa_master |-> "qa_master",
     email_master |-> "email_master",
     technology_master |-> "technology_master"]

\* master_cls = MASTER_CLASS_MAP.get(task.master); `if not master_cls` fails
Registered(master) == master \in DOMAIN MASTER_CLASS_MAP

\* task_query = getattr(task, "sub_query", "") or query
TaskQuery(task, q) == Or(task.sub_query, q)

\* (mutant) an unknown master ends the loop
SkipBreak(i) == [pc |-> "done", idx |-> i + 1]

\* `continue` after the warning: the loop goes on with the next task
SkipContinue(i) == [pc |-> "loop", idx |-> i + 1]

SkipEvent(i, task) ==
    [ev |-> "skip", task |-> i, master |-> task.master, priority |-> task.priority]
DispatchEvent(i, task, q) ==
    [ev |-> "dispatch", task |-> i, master |-> task.master, priority |-> task.priority, query |-> q]
DecisionEvent(i, task, d) ==
    [ev |-> "decision", task |-> i, master |-> task.master, priority |-> task.priority,
     intent |-> d.intent, hitl_required |-> d.hitl_required, hitl_reason |-> d.hitl_reason]

ScriptRawPlans ==
    RawPlans({"custom"}, {"top"},
             RawTasks({"email_master", "hr_master"}, {"notify"}, {"send the mail"},
                      1..MaxPriority, {}),
             MaxTasks, {})

ScriptRawDecisions ==
    RawDecisions({"email_master"}, {"search"},
                 RawSteps({"reply_draft_generation"}, {}, {"inputs_to_collect"}),
                 1, {})

Init ==
    /\ pc = "plan"
    /\ idx = 0
    /\ log = << >>
    /\ IdleRouter
    /\ IdleMaster
    /\ state = PyDict(EmptyDict)
    /\ NoMemory

\* plan = supervisor.plan(query=query, state={}); an exception ends the script
ScriptPlan ==
    /\ pc = "plan"
    /\ \E raw \in ScriptRawPlans :
          /\ RouterPlan(QUERY, None, raw)
          /\ pc' = IF PlanShapeOk(raw) THEN "loop" ELSE "crashed"
    /\ idx' = 1
    /\ UNCHANGED <<log, masterVars, memoryVars>>

\* `if not master_cls: logging.warning(...); continue`
LoopSkip ==
    /\ pc = "loop"
    /\ idx <= Len(plan.master_tasks)
    /\ ~Registered(plan.master_tasks[idx].master)
    /\ log' = Append(log, SkipEvent(idx, plan.master_tasks[idx]))
    /\ idx' = SkipContinue(idx).idx
    /\ pc' = SkipContinue(idx).pc
    /\ UNCHANGED <<routerVars, masterVars, state, memoryVars>>

\* master = master_cls(llm=llm); master.plan_tools(query=task_query, state={},
\* task_context=task.model_dump(), intent=task.intent); an exception ends the script
LoopDispatch ==
    /\ pc = "loop"
    /\ idx <= Len(plan.master_tasks)
    /\ Registered(plan.master_tasks[idx].master)
    /\ LET task == plan.master_tasks[idx]
           task_query == TaskQuery(task, query)
       IN  /\ log' = Append(log, DispatchEvent(idx, task, task_query))
           /\ m_name' = MASTER_CLASS_MAP[task.master]
           /\ stamped' = {}
           /\ \E raw \in ScriptRawDecisions :
                 /\ PlanToolsCall(MASTER_CLASS_MAP[task.master], task_query, task.intent, raw)
                 /\ pc' = IF DecisionShapeOk(raw) THEN "planning" ELSE "crashed"
    /\ UNCHANGED <<idx, routerVars, memoryVars>>

LoopExtract ==
    /\ pc = "planning"
    /\ ExtractStep
    /\ UNCHANGED <<routerVars, scriptVars, memoryVars>>

LoopReturn ==
    /\ pc = "planning"
    /\ PlanToolsReturn
    /\ UNCHANGED <<routerVars, scriptVars, memoryVars>>

\* the decision summary is logged and printed; on to the next task
LoopDecision ==
    /\ pc = "planning"
    /\ m_pc = "returned"
    /\ log' = Append(log, DecisionEvent(idx, plan.master_tasks[idx], decision))
    /\ idx' = idx + 1
    /\ pc' = "loop"
    /\ m_name' = None
    /\ m_pc' = "idle"
    /\ m_query' = None
    /\ m_intent' = None
    /\ raw_result' = NoRaw
    /\ decision' = NoDecision
    /\ m_step' = 0
    /\ calls' = << >>
    /\ replies' = << >>
    /\ stamped' = {}
    /\ UNCHANGED <<routerVars, state, memoryVars>>

\* the for loop is exhausted
LoopEnd ==
    /\ pc = "loop"
    /\ idx > Len(plan.master_tasks)
    /\ pc' = "done"
    /\ UNCHANGED <<idx, log, routerVars, masterVars, state, memoryVars>>

Next ==
    \/ ScriptPlan
    \/ LoopSkip
    \/ LoopDispatch
    \/ LoopExtract
    \/ LoopReturn
    \/ LoopDecision
    \/ LoopEnd

Spec == Init /\ [][Next]_vars

-----------------------------------------------------------------------------
(* One request served with both tiers as libraries: one SupervisorRouter.plan *)
(* call, then plan_tools calls for tasks of the plan, all handed the same     *)
(* state mapping *)

RequestStates ==
    {PyNone, PyDict(EmptyDict), PyDict([user |-> "kim"]),
     PyDict([user |-> "kim", pending_tool |-> "fax_sending"])}

RequestRawPlans ==
    RawPlans({"custom"}, {"top"},
             RawTasks({"email_master", "qa_master"}, {"notify"}, {"send the mail"}, {1}, {}),
             MaxPlanTasks, {})

RequestRawDecisions ==
    RawDecisions({"email_master"}, {"search"},
                 RawSteps({"reply_draft_generation"}, {<<"input.query">>}, {"inputs_to_collect"}),
                 1, {})

InitRequest ==
    /\ pc = "lib"
    /\ idx = 0
    /\ log = << >>
    /\ IdleRouter
    /\ IdleMaster
    /\ state \in RequestStates
    /\ NoMemory

\* supervisor.plan(query, state)
RequestRoute ==
    /\ pc = "lib"
    /\ r_pc = "idle"
    /\ \E raw \in RequestRawPlans : RouterPlan(QUERY, None, raw)
    /\ UNCHANGED <<scriptVars, masterVars, memoryVars>>

\* BaseLLMMaster(task.master, llm).plan_tools(task.sub_query, state, intent=task.intent)
\* for a task of the returned plan
RequestPlanTools ==
    /\ pc = "lib"
    /\ r_pc = "returned"
    /\ m_pc = "idle"
    /\ \E i \in 1..Len(plan.master_tasks) :
          LET task == plan.master_tasks[i]
          IN  /\ task.master \in DOMAIN MASTER_SPECS
              /\ m_name' = task.master
              /\ \E raw \in RequestRawDecisions :
                    PlanToolsCall(task.master, task.sub_query, task.intent, raw)
    /\ UNCHANGED <<stamped, routerVars, scriptVars, memoryVars>>

NextRequest ==
    \/ RequestRoute
    \/ RequestPlanTools
    \/ MasterExtract
    \/ MasterReturn
    \/ MasterRelease

SpecRequest == InitRequest /\ [][NextRequest]_vars

-----------------------------------------------------------------------------
(* short_term_manager.py: ShortTermMemoryManager *)

\* the entry record_interaction builds; the timestamp is the position in time
Entry(t, session_id, user_query) ==
    [timestamp |-> t, session_id |-> session_id, user_query |-> user_query]

\* _load: a missing file or one that is not JSON reads as {"conversations": []}
Load(file) ==
    IF file.kind \in {"absent", "corrupt"} THEN ("conversations" :> EmptyList) ELSE file.data

\* seq[k:] for a Python start index k (negative: counted from the end)
SliceFrom(seq, k) ==
    LET n == Len(seq)
        start == IF k < 0 THEN (IF n + k > 0 THEN n + k ELSE 0)
                 ELSE (IF k < n THEN k ELSE n)
    IN  SubSeq(seq, start + 1, n)

\* if len(conversations) > max: conversations[:] = conversations[-max:]
Truncate(conversations, max) ==
    IF Len(conversations) > max THEN SliceFrom(conversations, 0 - max) ELSE conversations

\* data as record_interaction saves it: setdefault, append, truncate
Recorded(data, entry, max) ==
    LET conversations == Get(data, "conversations", EmptyList)
    IN  ("conversations" :> Truncate(Append(conversations, entry), max)) @@ data

\* one record_interaction call: _load, append, truncate, _save
RecordInteraction(session_id, user_query) ==
    LET entry == Entry(MaxStored + mem_calls + 1, session_id, user_query)
    IN  /\ mem_file' = [kind |-> "json", data |-> Recorded(Load(mem_file), entry, mem_max)]
        /\ mem_log' = Append(mem_log, entry)
        /\ mem_calls' = mem_calls + 1
        /\ UNCHANGED mem_max

\* what the storage file may hold when the manager is constructed: nothing,
\* text that is not JSON, an object without "conversations", or an object
\* with earlier conversations
StoredConversations(n) == [i \in 1..n |-> Entry(i, "s0", "earlier")]
MemoryFiles ==
    {NoFile, [kind |-> "corrupt", data |-> EmptyDict], [kind |-> "json", data |-> EmptyDict]}
    \cup {[kind |-> "json", data |-> ("conversations" :> StoredConversations(n))] : n \in 0..MaxStored}

MemorySessions == {"s1"}
MemoryQueries == {"book a room", "send the mail"}

\* ShortTermMemoryManager(storage_path, max_conversations)
InitMemory ==
    /\ pc = "lib"
    /\ idx = 0
    /\ log = << >>
    /\ IdleRouter
    /\ IdleMaster
    /\ state = PyNone
    /\ mem_max \in 0..MaxConversations
    /\ mem_file \in MemoryFiles
    /\ mem_log = Get(Load(mem_file), "conversations", EmptyList)
    /\ mem_calls = 0

MemoryRecord ==
    /\ pc = "lib"
    /\ mem_calls < MaxRecords
    /\ \E session_id \in MemorySessions, user_query \in MemoryQueries :
          RecordInteraction(session_id, user_query)
    /\ UNCHANGED <<routerVars, scriptVars, masterVars, state>>

NextMemory == MemoryRecord

SpecMemory == InitMemory /\ [][NextMemory]_vars

-----------------------------------------------------------------------------
(* Properties *)

Tasks == plan.master_tasks

\* C1: every task of the SupervisorPlan returned by SupervisorRouter.plan has
\* a non-empty sub_query, whatever the query and the oracle response.
C1_SubQueryNonEmpty ==
    r_pc = "returned" => \A i \in 1..Len(Tasks) : Tasks[i].sub_query # ""

\* C2: the planners are invoked in ascending task priority, equal priorities
\* in list order: of any two dispatches, the earlier one has the lower
\* priority, or the same priority and the lower list position.
C2_DispatchAscending ==
    \A a, b \in 1..Len(log) :
        (a < b /\ log[a].ev = "dispatch" /\ log[b].ev = "dispatch") =>
            \/ log[a].priority < log[b].priority
            \/ (log[a].priority = log[b].priority /\ log[a].task < log[b].task)

\* the extraction call raised, or its content is no field-to-value mapping
\* (empty, not JSON, JSON that is not an object)
FailedReply(r) ==
    \/ r.kind = "raise"
    \/ (r.kind = "content" /\ r.content.form \in {"empty", "garbage", "array"})

\* C3: a step whose extraction call raised or returned output that is not a
\* mapping has every required field as a key of extracted_inputs, mapped to None.
C3_FailedExtractionAllNone ==
    \A i \in 1..Len(replies) :
        FailedReply(replies[i]) =>
            LET ei == decision.plan[i].extracted_inputs
                required == Elems(UniqueFields(decision.plan[i]))
            IN  /\ ei.type = "dict"
                /\ required \subseteq DOMAIN ei.val
                /\ \A f \in required : ei.val[f] = None

\* C4: when plan_tools has returned, every required field of every step is a
\* key of the step's extracted_inputs.
C4_RequiredFieldsPresent ==
    m_pc = "returned" =>
        \A i \in 1..Len(decision.plan) :
            LET ei == decision.plan[i].extracted_inputs
            IN  /\ ei.type = "dict"
                /\ Elems(UniqueFields(decision.plan[i])) \subseteq DOMAIN ei.val

\* C5: the decision plan_tools returns carries the name of the planner's bound
\* master, whatever name the oracle claimed, and so did every decision the
\* same planner returned before.
C5_MasterStamped ==
    m_pc = "returned" =>
        /\ decision.master = MASTER_SPECS[m_name].name
        /\ stamped \subseteq {decision.master}

\* C5 witness: a second (or later) call on the planner returns although the
\* oracle claimed another master
C5_Witness ==
    /\ m_pc = "returned"
    /\ stamped # {}
    /\ raw_result.master # m_name
    /\ decision.master = m_name

\* catalog input fields of the step's tool united with its inputs_to_collect
FieldUnion(step) ==
    (IF step.tool \in DOMAIN TOOL_SPECS THEN Elems(TOOL_SPECS[step.tool].inputs) ELSE {})
    \cup Elems(step.inputs_to_collect)

\* C6: a step whose field union is empty gets extracted_inputs = {} and no
\* oracle call is made for it.
C6_EmptyUnionNoCall ==
    \A i \in 1..Len(replies) :
        FieldUnion(decision.plan[i]) = {} =>
            /\ decision.plan[i].extracted_inputs = PyDict(EmptyDict)
            /\ \A k \in 1..Len(calls) : ~(calls[k].kind = "extract" /\ calls[k].step = i)
            /\ Len(calls) = 1 + Cardinality({j \in 1..Len(replies) : replies[j] # Skipped})

\* C6 witness: plan_tools returned a plan with a step on a tool that is not in
\* the catalog and collects nothing, next to a step that did need the oracle
C6_Witness ==
    /\ m_pc = "returned"
    /\ \E i, j \in 1..Len(decision.plan) :
          /\ decision.plan[i].tool \notin DOMAIN TOOL_SPECS
          /\ decision.plan[i].inputs_to_collect = EmptyList
          /\ replies[i] = Skipped
          /\ replies[j] # Skipped

HasEvent(ev, i) == \E k \in 1..Len(log) : log[k].ev = ev /\ log[k].task = i

\* C7: a task whose master has no registered planner gets a skip record and no
\* planner call, and the skip does not end the loop: the script never stops at
\* such a task, and a loop that ran to its end handled every task.
C7_UnknownMasterSkipped ==
    /\ \A i \in 1..Len(Tasks) :
          (i < idx /\ ~Registered(Tasks[i].master)) =>
              /\ HasEvent("skip", i)
              /\ ~HasEvent("dispatch", i)
              /\ ~HasEvent("decision", i)
    /\ (pc \in {"done", "crashed"} /\ idx <= Len(Tasks)) =>
          (pc = "crashed" /\ Registered(Tasks[idx].master) /\ HasEvent("dispatch", idx))
    /\ pc = "done" =>
          \A i \in 1..Len(Tasks) : HasEvent("skip", i) \/ HasEvent("decision", i)

\* C7 witness: the loop ended after skipping an unknown master and planning
\* the task that follows it
C7_Witness ==
    /\ pc = "done"
    /\ \E i \in 1..Len(Tasks) - 1 :
          /\ ~Registered(Tasks[i].master)
          /\ HasEvent("skip", i)
          /\ HasEvent("decision", i + 1)

\* C8: a failure of planning one task stays with that task: when the script
\* has ended, every routed task was dispatched or skipped.
C8_FailureConfined ==
    (pc \in {"done", "crashed"} /\ r_pc = "returned") =>
        \A i \in 1..Len(Tasks) : HasEvent("skip", i) \/ HasEvent("dispatch", i)

\* C9: the intent of the returned decision is the caller's override when one
\* is given (a non-empty string), else the oracle's intent when it is
\* non-empty, else the first supported intent of the bound master.
C9_IntentPrecedence ==
    m_pc = "returned" =>
        decision.intent =
            IF m_intent \notin {None, ""} THEN m_intent
            ELSE IF "intent" \in DOMAIN raw_result /\ raw_result.intent # ""
                 THEN raw_result.intent
                 ELSE MASTER_SPECS[m_name].intents[1]

\* C9 witness: no override, an oracle answer without intent, and the first
\* supported intent on the returned decision
C9_Witness ==
    /\ m_pc = "returned"
    /\ m_intent = None
    /\ "intent" \notin DOMAIN raw_result
    /\ decision.intent = MASTER_SPECS[m_name].intents[1]

\* the catalog domain of the first task whose master is cataloged, else "general"
FirstCatalogedDomain(tasks) ==
    LET cataloged == {i \in 1..Len(tasks) : tasks[i].master \in DOMAIN MASTER_SPECS}
    IN  IF cataloged = {} THEN "general"
        ELSE MASTER_SPECS[tasks[CHOOSE i \in cataloged : \A j \in cataloged : i <= j].master].domain

\* C10: a given domain_hint is the plan's domain; without a hint, a response
\* that carries no domain gets the domain of the first cataloged task, and
\* "general" only when no task's master is cataloged.
C10_PlanDomain ==
    r_pc = "returned" =>
        IF domain_hint \notin {None, ""} THEN plan.domain = domain_hint
        ELSE ("domain" \notin DOMAIN raw_plan \/ raw_plan.domain = "") =>
                 plan.domain = FirstCatalogedDomain(Tasks)

\* the keys the SupervisorPlan shape declares, and those of each of its tasks
PlanKeys == {"domain", "intent", "master_tasks"}
TaskKeys == {"master", "intent", "sub_query", "priority"}
\* the keys the MasterDecision shape declares (as far as they are modelled)
DecisionKeys == {"master", "intent", "plan", "hitl_required", "hitl_reason"}

\* C11: a plan is returned only for an oracle response that carries every
\* field of the declared shape; a response with fields missing makes the call
\* fail instead of being completed with default values.
C11_NoDefaultedPlan ==
    /\ r_pc = "returned" =>
          /\ PlanKeys \subseteq DOMAIN raw_plan
          /\ \A i \in 1..Len(raw_plan.master_tasks) :
                TaskKeys \subseteq DOMAIN raw_plan.master_tasks[i]
    /\ m_pc = "returned" => DecisionKeys \subseteq DOMAIN raw_result

\* C12: a decision plan_tools returns with hitl_required true has a non-empty
\* hitl_reason.
C12_HitlReasonGiven ==
    (m_pc = "returned" /\ decision.hitl_required) => decision.hitl_reason \notin {None, ""}

\* the supported intents of the planner's bound master
SupportedIntents == Elems(MASTER_SPECS[m_name].intents)

\* C13: a decision plan_tools returns for a call without an intent override has
\* an intent that is one of the bound master's supported intents.
C13_IntentSupported ==
    (m_pc = "returned" /\ m_intent \in {None, ""}) => decision.intent \in SupportedIntents

\* C14: no step of a router call or of a planner call changes the state mapping
\* the caller passed: it has the same keys and values after the calls as before.
C14_StateUnchanged == [][state' = state]_vars

\* a request with a non-empty state mapping has been routed and a second
\* planner call on it has returned
C14_Witness ==
    /\ state.type = "dict"
    /\ DOMAIN state.val # {}
    /\ r_pc = "returned"
    /\ m_pc = "returned"
    /\ stamped # {}

\* the extraction oracle call raised, or json.loads raised on its content
RaisedReply(r) ==
    \/ r.kind = "raise"
    \/ (r.kind = "content" /\ r.content.form = "garbage")

\* C15: plan_tools raises only out of its planning call, never once extraction
\* has begun; each step the loop has passed holds what its own attempt produced
\* (all fields None when that attempt raised), whatever happened at the other
\* steps; the steps not reached yet are untouched; and at return every step
\* has had its attempt.
C15_ExtractionFailureLocal ==
    /\ m_pc = "raised" => (replies = << >> /\ calls = <<PlanCall>>)
    /\ m_pc \in {"extract", "returned"} =>
          \A i \in 1..Len(decision.plan) :
             LET step == decision.plan[i]
             IN  IF i > Len(replies) THEN step.extracted_inputs = PyDict(EmptyDict)
                 ELSE IF replies[i].kind = "skipped" THEN step.extracted_inputs = PyDict(EmptyDict)
                 ELSE IF RaisedReply(replies[i])
                      THEN step.extracted_inputs = AllNone(UniqueFields(step))
                 ELSE step.extracted_inputs = ExtractedInputs(replies[i], UniqueFields(step))
    /\ m_pc = "returned" => Len(replies) = Len(decision.plan)

\* a two-step plan was returned whose first step got a field-to-value object
\* and whose second step's extraction raised
C15_Witness ==
    /\ m_pc = "returned"
    /\ Len(decision.plan) = 2
    /\ replies[1].kind = "content"
    /\ replies[1].content.form = "object"
    /\ DOMAIN replies[1].content.obj # {}
    /\ replies[2].kind \in {"raise", "content"}
    /\ RaisedReply(replies[2])
    /\ decision.plan[1].extracted_inputs = PyDict(replies[1].content.obj)

\* the catalog input fields of a step's tool followed by its inputs_to_collect
CatalogThenCollect(step) ==
    (IF step.tool \in DOMAIN TOOL_SPECS THEN TOOL_SPECS[step.tool].inputs ELSE << >>)
    \o step.inputs_to_collect

\* position of the first occurrence of x in seq
FirstIndex(seq, x) == CHOOSE i \in 1..Len(seq) : seq[i] = x /\ \A j \in 1..(i - 1) : seq[j] # x

\* `fields` holds exactly the entries `wanted` of `src`, each once, in the
\* order of their first occurrence in src
FirstSeenList(fields, src, wanted) ==
    /\ \A a, b \in 1..Len(fields) : a # b => fields[a] # fields[b]
    /\ Elems(fields) = wanted
    /\ \A a, b \in 1..Len(fields) : a < b => FirstIndex(src, fields[a]) < FirstIndex(src, fields[b])

\* the extraction calls made so far in the running plan_tools call
ExtractCalls == {k \in 1..Len(calls) : calls[k].kind = "extract"}

\* C16 (as stated): the field list of every extraction call holds every entry
\* of the catalog inputs followed by inputs_to_collect, once, in first-seen order.
C16_FieldListAllEntries ==
    m_pc \in {"extract", "returned"} =>
        \A k \in ExtractCalls :
            LET src == CatalogThenCollect(decision.plan[calls[k].step])
            IN  FirstSeenList(calls[k].fields, src, Elems(src))

\* C16 (amended): the field list of every extraction call holds every non-empty
\* entry of the catalog inputs followed by inputs_to_collect, once, in
\* first-seen order; empty-string entries are left out.
C16_FieldListNonEmptyEntries ==
    m_pc \in {"extract", "returned"} =>
        \A k \in ExtractCalls :
            LET src == CatalogThenCollect(decision.plan[calls[k].step])
            IN  FirstSeenList(calls[k].fields, src, Elems(src) \ {""})

\* an extraction call was made for a cataloged tool whose inputs_to_collect
\* repeats a catalog field and holds an empty string
C16_Witness ==
    /\ m_pc \in {"extract", "returned"}
    /\ \E k \in ExtractCalls :
          LET step == decision.plan[calls[k].step]
          IN  /\ step.tool \in DOMAIN TOOL_SPECS
              /\ "" \in Elems(step.inputs_to_collect)
              /\ Elems(TOOL_SPECS[step.tool].inputs) \cap Elems(step.inputs_to_collect) # {}
              /\ Len(calls[k].fields) = 2

\* the extraction calls made so far for step i
ExtractCallsOf(i) == {k \in ExtractCalls : calls[k].step = i}

\* C17: within one plan_tools call the first oracle call is the planning call
\* and there is no other; the extraction calls that follow are in increasing
\* step order; every step the loop has passed has had one extraction call if it
\* has a non-empty field to extract and none otherwise, the steps not reached
\* none; and each passed step's extracted_inputs was assigned once.
C17_OneCallPerStep ==
    /\ m_pc = "raised" => calls = <<PlanCall>>
    /\ m_pc \in {"extract", "returned"} =>
          /\ Len(calls) >= 1
          /\ calls[1] = PlanCall
          /\ \A k \in 2..Len(calls) : calls[k].kind = "extract"
          /\ \A j, k \in 2..Len(calls) : j < k => calls[j].step < calls[k].step
          /\ \A i \in 1..Len(decision.plan) :
                Cardinality(ExtractCallsOf(i)) =
                    IF i < m_step /\ Elems(CatalogThenCollect(decision.plan[i])) \ {""} # {}
                    THEN 1 ELSE 0
          /\ Len(replies) = m_step - 1
    /\ m_pc = "returned" => m_step = Len(decision.plan) + 1

\* a two-step plan was returned after three oracle calls, the first step's
\* extraction call having raised
C17_Witness ==
    /\ m_pc = "returned"
    /\ Len(decision.plan) = 2
    /\ Len(calls) = 3
    /\ replies[1].kind = "raise"

\* C18: once record_interaction has been called, the stored conversation list
\* has at most max_conversations entries and is the tail of what was recorded,
\* in recording order.
C18_KeepsMostRecent ==
    mem_calls >= 1 =>
        LET stored == mem_file.data.conversations
        IN  /\ Len(stored) <= mem_max
            /\ Len(stored) <= Len(mem_log)
            /\ stored = SubSeq(mem_log, Len(mem_log) - Len(stored) + 1, Len(mem_log))

====
